---- MODULE Spec2Model ----
(***************************************************************************)
(* CSSPluginClass of src/plugins/stylesheet/CSSplugin.ts: the stylesheet   *)
(* transform of the bundler.  One build is modelled: the host calls        *)
(* transform once on every module, calls transformGroup once on a file     *)
(* group, and completes or fails the asynchronous writes in any order.     *)
(*                                                                         *)
(* A JavaScript string is a sequence of tokens; a token is one character   *)
(* of stylesheet content or one literal piece of a template string, and    *)
(* string concatenation is \o.                                             *)
(***************************************************************************)
EXTENDS Naturals, Sequences, FiniteSets, TLC

VARIABLES
  files,       \* the File objects of the context, by logical path
  options,     \* this.options of the configured plugin instance
  bundle,      \* file.context.bundle
  called,      \* the files the host has called transform on
  handledBy,   \* the options of the instance that transformed a module
  source,      \* the text loadContents read for a module
  appendOrder, \* the modules in the order transform appended them to the group
  atFinalize,  \* appendOrder as it was when transformGroup was called
  pc,          \* where the call on a file stands
  task,        \* the pending write of the call on a file
  disk,        \* the files written, by path
  emitted,     \* the events sent to context.sourceChangedEmitter
  fatals,      \* the modules context.fatal was called for
  log          \* what the call on a file did, in order

vars == <<files, options, bundle, called, handledBy, source, appendOrder,
          atFinalize, pc, task, disk, emitted, fatals, log>>

host == <<options, bundle>>
history == <<called, handledBy, source, appendOrder>>

\* ------------------------------------------------------------------ bounds
\* Modules the host discovers in one build.
MaxModules == 2
\* The longest content minifyContents is applied to, and how often.
MaxLen == 5
MaxApplications == 2

\* ------------------------------------------------------------------ values
\* undefined: of an option, and of a string.
None == "undefined"
Undefined == <<"undefined">>

ModuleNames == <<"a.css", "b.css", "c.css", "d.css", "e.css">>
Modules == {ModuleNames[i] : i \in 1..MaxModules}
\* The modules of a build that only groups them: one more.
GroupedModules == {ModuleNames[i] : i \in 1..(MaxModules + 1)}

GroupName == "bundle.css"

Whitespace == {" ", "\t", "\r", "\n"}

\* What file.loadContents() can read from disk for a module.
ContentPool ==
  { <<" ", "a", " ", "\n", "\"", "\t">>,
    <<"b", "\n", "\\">> }

\* options.outFile: undefined, a string (a path), or a function of the path.
OutFileKinds == {None, "string", "function"}
OutFileString == <<"dist", "/", "bundle.css">>
OutFileFunction(p) == <<"out", "/">> \o p

\* options.inject: undefined, false, or a function of the path.
InjectKinds == {None, "false", "function"}
InjectFunction(p) == <<"custom", "/">> \o p

OptionsSet ==
  [outFile : OutFileKinds, inject : InjectKinds,
   group : {None, GroupName}, minify : BOOLEAN]

\* opts = {} of the constructor
NoOptions == [outFile |-> None, inject |-> None, group |-> None, minify |-> FALSE]

\* file.context.bundle: no bundle, a bundle with no lastChangedFile, or a
\* bundle whose lastChangedFile has the given extension.
Bundles ==
  { [present |-> FALSE, lastChangedFile |-> Undefined],
    [present |-> TRUE, lastChangedFile |-> Undefined],
    [present |-> TRUE, lastChangedFile |-> <<"src", "/", "main", ".css">>],
    [present |-> TRUE, lastChangedFile |-> <<"src", "/", "app", ".js">>] }

\* ------------------------------------------------------------------ paths
Last(s) == s[Len(s)]

RECURSIVE LastSlash(_, _)
LastSlash(p, i) ==
  IF i = 0 THEN 0 ELSE IF p[i] = "/" THEN i ELSE LastSlash(p, i - 1)

\* path.basename and path.dirname
BaseName(p) == SubSeq(p, LastSlash(p, Len(p)) + 1, Len(p))
DirName(p) ==
  LET i == LastSlash(p, Len(p))
  IN IF i = 0 THEN <<".">> ELSE IF i = 1 THEN <<"/">> ELSE SubSeq(p, 1, i - 1)
PathJoin(d, b) == IF d = <<"/">> THEN d \o b ELSE d \o <<"/">> \o b

\* Utils.ensureUserPath: a relative path is resolved against the application
\* root, an absolute one is kept.
AppRoot == <<"/", "app">>
EnsureUserPath(p) == IF p[1] = "/" THEN p ELSE PathJoin(AppRoot, p)

\* Utils.isStylesheetExtension
StylesheetExtensions == {".css", ".sass", ".scss", ".styl", ".less"}
isStylesheetExtension(p) == Last(p) \in StylesheetExtensions

\* ------------------------------------------------------------------ strings
RECURSIVE SkipWhitespace(_)
SkipWhitespace(s) ==
  IF s # <<>> /\ Head(s) \in Whitespace THEN SkipWhitespace(Tail(s)) ELSE s

\* CollapseRuns that replaces pairs only, as /\s{2}/g would.
RECURSIVE CollapsePairs(_)
CollapsePairs(s) ==
  IF s = <<>> THEN <<>>
  ELSE IF Len(s) >= 2 /\ s[1] \in Whitespace /\ s[2] \in Whitespace
       THEN <<" ">> \o CollapsePairs(SubSeq(s, 3, Len(s)))
       ELSE <<Head(s)>> \o CollapsePairs(Tail(s))

\* contents.replace(/\s{2,}/g, " ")
RECURSIVE CollapseRuns(_)
CollapseRuns(s) ==
  IF s = <<>> THEN <<>>
  ELSE IF Len(s) >= 2 /\ s[1] \in Whitespace /\ s[2] \in Whitespace
       THEN <<" ">> \o CollapseRuns(SkipWhitespace(s))
       ELSE <<Head(s)>> \o CollapseRuns(Tail(s))

\* .replace(/\t|\r|\n/g, "")
IsKept(c) == c \notin {"\t", "\r", "\n"}
DeleteBreaks(s) == SelectSeq(s, IsKept)

\* .trim()
RECURSIVE TrimEnd(_)
TrimEnd(s) ==
  IF s # <<>> /\ Last(s) \in Whitespace
  THEN TrimEnd(SubSeq(s, 1, Len(s) - 1)) ELSE s
Trim(s) == TrimEnd(SkipWhitespace(s))

minifyContents(contents) == Trim(DeleteBreaks(CollapseRuns(contents)))

\* JSON.stringify of a string: quoted, with the quote, the backslash and the
\* control characters escaped.
JSONEscape(c) ==
  CASE c = "\"" -> <<"\\", "\"">>
    [] c = "\\" -> <<"\\", "\\">>
    [] c = "\n" -> <<"\\", "n">>
    [] c = "\r" -> <<"\\", "r">>
    [] c = "\t" -> <<"\\", "t">>
    [] OTHER -> <<c>>

\* JSONStringify that escapes nothing.
JSONStringifyRaw(s) == <<"\"">> \o s \o <<"\"">>

RECURSIVE JSONEscapeAll(_)
JSONEscapeAll(s) ==
  IF s = <<>> THEN <<>> ELSE JSONEscape(Head(s)) \o JSONEscapeAll(Tail(s))

JSONStringify(s) == <<"\"">> \o JSONEscapeAll(s) \o <<"\"">>

\* ------------------------------------------------------------------ host objects
AllFiles == GroupedModules \cup {GroupName}

\* file.info.fuseBoxPath
fuseBoxPath(f) == <<f>>

\* The source map an earlier plugin of the chain left on a module.
ModuleMap(f) == <<"{\"sources\":[", f, "]}">>

\* A module as the host's discovery step hands it over.
NewModule(sm) ==
  [contents |-> <<>>, isLoaded |-> FALSE, alternativeContent |-> Undefined,
   sourceMap |-> sm, subFiles |-> <<>>, groupMode |-> FALSE,
   groupHandler |-> NoOptions]

\* context.createFileGroup(name, collection, handler)
createFileGroup(handler) ==
  [contents |-> <<>>, isLoaded |-> FALSE, alternativeContent |-> Undefined,
   sourceMap |-> Undefined, subFiles |-> <<>>, groupMode |-> TRUE,
   groupHandler |-> handler]

\* file.hasSubFiles()
hasSubFiles(file) == Len(file.subFiles) > 0

\* file.addSubFile(sub)
addSubFile(file, sub) == [file EXCEPT !.subFiles = Append(@, sub)]

\* file.addAlternativeContent(str)
addAlternativeContent(file, str) == [file EXCEPT !.alternativeContent = str]

\* file.loadContents(): reads the module from disk once.
loadContents(file, raw) ==
  IF file.isLoaded THEN file
  ELSE [file EXCEPT !.contents = raw, !.isLoaded = TRUE]

\* new Concat(true, "", "\n") and concat.add(path, content, sourceMap);
\* concat.sourceMap lists the sources in the order they were added.
NewConcat == [content |-> <<>>, parts |-> 0, sources |-> <<>>]
ConcatAdd(concat, path, content) ==
  [content |-> IF concat.parts = 0 THEN content
               ELSE concat.content \o <<"\n">> \o content,
   parts |-> concat.parts + 1,
   sources |-> IF path = Undefined THEN concat.sources
               ELSE concat.sources \o path]
ConcatSourceMap(concat) == <<"{\"sources\":[">> \o concat.sources \o <<"]}">>

\* ------------------------------------------------------------------ the plugin
\* The runtime call strings.
ReferenceCall(path) == <<"__fsbx_css(\"">> \o path \o <<"\");">>
ValueCall(path, literal) ==
  <<"__fsbx_css(\"">> \o path \o <<"\", ">> \o literal \o <<")">>
RequireCall(name) == <<"require(\"~/", name, "\")">>

\* inject that never suppresses the call.
injectAlways(file, f, opts, alternative) ==
  LET resolvedPath == IF opts.inject = "function"
                      THEN InjectFunction(fuseBoxPath(f)) ELSE fuseBoxPath(f)
      result == ReferenceCall(resolvedPath)
  IN IF alternative THEN addAlternativeContent(file, result)
     ELSE [file EXCEPT !.contents = result]

\* inject(file, options, alternative), lines 60-75
inject(file, f, opts, alternative) ==
  LET resolvedPath == IF opts.inject = "function"
                      THEN InjectFunction(fuseBoxPath(f)) ELSE fuseBoxPath(f)
      result == IF opts.inject # "false" THEN ReferenceCall(resolvedPath) ELSE <<>>
  IN IF alternative THEN addAlternativeContent(file, result)
     ELSE [file EXCEPT !.contents = result]

\* emitHMR without the gate on the last changed file.
emitHMRUngated(file, f) ==
  <<[type |-> "js", content |-> file.alternativeContent, path |-> fuseBoxPath(f)]>>

\* emitHMR(file), lines 114-128: the events it emits.
emitHMR(file, f) ==
  LET emitRequired ==
        IF bundle.present /\ bundle.lastChangedFile # Undefined
        THEN isStylesheetExtension(bundle.lastChangedFile) ELSE TRUE
  IN IF emitRequired
     THEN <<[type |-> "js", content |-> file.alternativeContent,
             path |-> fuseBoxPath(f)]>>
     ELSE <<>>

\* ConcatSubFiles that takes the members last to first.
RECURSIVE ConcatSubFilesReversed(_, _)
ConcatSubFilesReversed(concat, subs) ==
  IF subs = <<>> THEN concat
  ELSE ConcatSubFilesReversed(
         ConcatAdd(concat, fuseBoxPath(Last(subs)), files[Last(subs)].contents),
         SubSeq(subs, 1, Len(subs) - 1))

\* The forEach of transformGroup, lines 82-86.
RECURSIVE ConcatSubFiles(_, _)
ConcatSubFiles(concat, subs) ==
  IF subs = <<>> THEN concat
  ELSE ConcatSubFiles(
         ConcatAdd(concat, fuseBoxPath(Head(subs)), files[Head(subs)].contents),
         Tail(subs))

\* The pending write of a call and the concat its continuation closes over.
NoTask == [path |-> Undefined, data |-> Undefined, concat |-> NewConcat]

\* The plugin instances of the build: the configured one and a CSSPlugin().
Plugins == {options, NoOptions}

Logged(f, events) == [log EXCEPT ![f] = @ \o events]

Init ==
  /\ \E maps \in SUBSET Modules :
       files = [f \in Modules |->
                  NewModule(IF f \in maps THEN ModuleMap(f) ELSE Undefined)]
  /\ called = [f \in AllFiles |-> FALSE]
  /\ handledBy = [f \in AllFiles |-> NoOptions]
  /\ source = [f \in AllFiles |-> Undefined]
  /\ appendOrder = <<>>
  /\ atFinalize = <<>>
  /\ pc = [f \in AllFiles |-> "idle"]
  /\ task = [f \in AllFiles |-> NoTask]
  /\ disk = <<>>
  /\ emitted = <<>>
  /\ fatals = <<>>
  /\ log = [f \in AllFiles |-> <<>>]
  /\ options \in OptionsSet
  /\ bundle \in Bundles

\* write(path, data) of Utils: the write is started and its promise pending.
StartWrite(f, path, data, concat) ==
  [task EXCEPT ![f] = [path |-> path, data |-> data, concat |-> concat]]

\* The file system after a write completed.
Written(path, data) ==
  [p \in DOMAIN disk \cup {path} |-> IF p = path THEN data ELSE disk[p]]

\* TransformGrouped that creates the group on every call.
TransformGroupedRecreating(f, this, file) ==
  LET bundleName == this.group
      grouped == addAlternativeContent([file EXCEPT !.sourceMap = Undefined],
                                       RequireCall(bundleName))
      fileGroup == createFileGroup(this)
  IN /\ files' = [n \in DOMAIN files \cup {bundleName} |->
                    IF n = bundleName THEN addSubFile(fileGroup, f)
                    ELSE IF n = f THEN grouped ELSE files[n]]
     /\ appendOrder' = Append(appendOrder, f)
     /\ pc' = [pc EXCEPT ![f] = "returned"]
     /\ UNCHANGED <<task, emitted, fatals, log>>

\* TransformGrouped that also notifies the change of the module.
TransformGroupedNotifying(f, this, file) ==
  LET bundleName == this.group
      grouped == addAlternativeContent([file EXCEPT !.sourceMap = Undefined],
                                       RequireCall(bundleName))
      fileGroup == IF bundleName \in DOMAIN files
                   THEN files[bundleName] ELSE createFileGroup(this)
  IN /\ files' = [n \in DOMAIN files \cup {bundleName} |->
                    IF n = bundleName THEN addSubFile(fileGroup, f)
                    ELSE IF n = f THEN grouped ELSE files[n]]
     /\ appendOrder' = Append(appendOrder, f)
     /\ pc' = [pc EXCEPT ![f] = "returned"]
     /\ emitted' = emitted \o emitHMR(grouped, f)
     /\ log' = Logged(f, <<"emitHMR">>)
     /\ UNCHANGED <<task, fatals>>

\* The group path of transform, lines 161-175; file is the module after
\* loadContents and minification.
TransformGrouped(f, this, file) ==
  LET bundleName == this.group
      grouped == addAlternativeContent([file EXCEPT !.sourceMap = Undefined],
                                       RequireCall(bundleName))
      fileGroup == IF bundleName \in DOMAIN files
                   THEN files[bundleName] ELSE createFileGroup(this)
  IN /\ files' = [n \in DOMAIN files \cup {bundleName} |->
                    IF n = bundleName THEN addSubFile(fileGroup, f)
                    ELSE IF n = f THEN grouped ELSE files[n]]
     /\ appendOrder' = Append(appendOrder, f)
     /\ pc' = [pc EXCEPT ![f] = "returned"]
     /\ UNCHANGED <<task, emitted, fatals, log>>

\* context.fatal(message): the error is reported and thrown, which ends the
\* call.
ContextFatal(f) ==
  /\ fatals' = Append(fatals, f)
  /\ pc' = [pc EXCEPT ![f] = "threw"]
  /\ log' = Logged(f, <<"fatal">>)

\* outFile is defined and no function, lines 181-183.
TransformFatal(f, this, file) ==
  /\ files' = [files EXCEPT ![f] = file]
  /\ ContextFatal(f)
  /\ UNCHANGED <<appendOrder, task, emitted>>

\* TransformOutFile that puts the content into the replacement.
TransformOutFileInline(f, this, file) ==
  LET userPath == EnsureUserPath(OutFileFunction(fuseBoxPath(f)))
      injected == addAlternativeContent(file,
                    ValueCall(fuseBoxPath(f), JSONStringify(file.contents)))
  IN /\ files' = [files EXCEPT ![f] = injected]
     /\ task' = StartWrite(f, userPath, injected.contents, NewConcat)
     /\ pc' = [pc EXCEPT ![f] = "content-write"]
     /\ log' = Logged(f, <<"inject", "contentWrite.start">>)
     /\ UNCHANGED <<appendOrder, emitted, fatals>>

\* TransformOutFile that also notifies the change of the module.
TransformOutFileNotifying(f, this, file) ==
  LET userPath == EnsureUserPath(OutFileFunction(fuseBoxPath(f)))
      injected == inject(file, f, this, TRUE)
  IN /\ files' = [files EXCEPT ![f] = injected]
     /\ task' = StartWrite(f, userPath, injected.contents, NewConcat)
     /\ pc' = [pc EXCEPT ![f] = "content-write"]
     /\ emitted' = emitted \o emitHMR(injected, f)
     /\ log' = Logged(f, <<"inject", "contentWrite.start", "emitHMR">>)
     /\ UNCHANGED <<appendOrder, fatals>>

\* TransformOutFile that leaves the injection to the continuation of the write.
TransformOutFileDeferred(f, this, file) ==
  LET userPath == EnsureUserPath(OutFileFunction(fuseBoxPath(f)))
  IN /\ files' = [files EXCEPT ![f] = file]
     /\ task' = StartWrite(f, userPath, file.contents, NewConcat)
     /\ pc' = [pc EXCEPT ![f] = "content-write"]
     /\ log' = Logged(f, <<"contentWrite.start">>)
     /\ UNCHANGED <<appendOrder, emitted, fatals>>

\* The direct-output path of transform, lines 189-195.
TransformOutFile(f, this, file) ==
  LET userPath == EnsureUserPath(OutFileFunction(fuseBoxPath(f)))
      injected == inject(file, f, this, TRUE)
  IN /\ files' = [files EXCEPT ![f] = injected]
     /\ task' = StartWrite(f, userPath, injected.contents, NewConcat)
     /\ pc' = [pc EXCEPT ![f] = "content-write"]
     /\ log' = Logged(f, <<"inject", "contentWrite.start">>)
     /\ UNCHANGED <<appendOrder, emitted, fatals>>

\* The inline path of transform, lines 202-210.
TransformInline(f, this, file) ==
  LET safeContents == JSONStringify(file.contents)
      inlined == addAlternativeContent([file EXCEPT !.sourceMap = Undefined],
                                       ValueCall(fuseBoxPath(f), safeContents))
  IN /\ files' = [files EXCEPT ![f] = inlined]
     /\ emitted' = emitted \o emitHMR(inlined, f)
     /\ pc' = [pc EXCEPT ![f] = "returned"]
     /\ log' = Logged(f, <<"emitHMR">>)
     /\ UNCHANGED <<appendOrder, task, fatals>>

\* Transform without the check that outFile is a function.
TransformUnchecked(f, this) ==
  /\ f \in DOMAIN files
  /\ ~called[f]
  /\ called' = [called EXCEPT ![f] = TRUE]
  /\ UNCHANGED <<disk, host, atFinalize>>
  /\ IF hasSubFiles(files[f])
     THEN UNCHANGED <<files, handledBy, source, appendOrder, pc, task, emitted,
                      fatals, log>>
     ELSE \E raw \in ContentPool :
       /\ handledBy' = [handledBy EXCEPT ![f] = this]
       /\ source' = [source EXCEPT ![f] = IF files[f].isLoaded THEN @ ELSE raw]
       /\ LET loaded == loadContents(files[f], raw)
              file == [loaded EXCEPT !.contents =
                         IF this.minify THEN minifyContents(@) ELSE @]
          IN IF this.group # None THEN TransformGrouped(f, this, file)
             ELSE IF this.outFile # None
             THEN TransformOutFile(f, this, file)
             ELSE TransformInline(f, this, file)

\* Transform without the skip of a module that has sub-members.
TransformUnskipped(f, this) ==
  /\ f \in DOMAIN files
  /\ ~called[f]
  /\ called' = [called EXCEPT ![f] = TRUE]
  /\ UNCHANGED <<disk, host, atFinalize>>
  /\ \E raw \in ContentPool :
       /\ handledBy' = [handledBy EXCEPT ![f] = this]
       /\ source' = [source EXCEPT ![f] = IF files[f].isLoaded THEN @ ELSE raw]
       /\ LET loaded == loadContents(files[f], raw)
              file == [loaded EXCEPT !.contents =
                         IF this.minify THEN minifyContents(@) ELSE @]
          IN IF this.group # None THEN TransformGrouped(f, this, file)
             ELSE IF this.outFile # None /\ this.outFile # "function"
             THEN TransformFatal(f, this, file)
             ELSE IF this.outFile = "function"
             THEN TransformOutFile(f, this, file)
             ELSE TransformInline(f, this, file)

\* transform(file), lines 136-211, of the plugin instance whose options are
\* this.
Transform(f, this) ==
  /\ f \in DOMAIN files
  /\ ~called[f]
  /\ called' = [called EXCEPT ![f] = TRUE]
  /\ UNCHANGED <<disk, host, atFinalize>>
  /\ IF hasSubFiles(files[f])
     THEN UNCHANGED <<files, handledBy, source, appendOrder, pc, task, emitted,
                      fatals, log>>
     ELSE \E raw \in ContentPool :
       /\ handledBy' = [handledBy EXCEPT ![f] = this]
       /\ source' = [source EXCEPT ![f] = IF files[f].isLoaded THEN @ ELSE raw]
       /\ LET loaded == loadContents(files[f], raw)
              file == [loaded EXCEPT !.contents =
                         IF this.minify THEN minifyContents(@) ELSE @]
          IN IF this.group # None THEN TransformGrouped(f, this, file)
             ELSE IF this.outFile # None /\ this.outFile # "function"
             THEN TransformFatal(f, this, file)
             ELSE IF this.outFile = "function"
             THEN TransformOutFile(f, this, file)
             ELSE TransformInline(f, this, file)

\* TransformWritten that writes the map file whether or not there is a map.
TransformWrittenAlwaysMap(f) ==
  /\ f \in Modules
  /\ pc[f] = "content-write"
  /\ disk' = Written(task[f].path, task[f].data)
  /\ LET userPath == task[f].path
         fileDir == DirName(userPath)
         sourceMapPath == PathJoin(fileDir, BaseName(userPath) \o <<".map">>)
     IN /\ task' = StartWrite(f, sourceMapPath, files[f].sourceMap, NewConcat)
        /\ pc' = [pc EXCEPT ![f] = "map-write"]
        /\ log' = Logged(f, <<"contentWrite.done", "mapWrite.start">>)
  /\ UNCHANGED <<files, emitted, fatals, host, history, atFinalize>>

\* The continuation of the content write of transform, lines 195-201.
TransformWritten(f) ==
  /\ f \in Modules
  /\ pc[f] = "content-write"
  /\ disk' = Written(task[f].path, task[f].data)
  /\ IF files[f].sourceMap # Undefined
     THEN LET userPath == task[f].path
              fileDir == DirName(userPath)
              sourceMapPath == PathJoin(fileDir, BaseName(userPath) \o <<".map">>)
          IN /\ task' = StartWrite(f, sourceMapPath, files[f].sourceMap, NewConcat)
             /\ pc' = [pc EXCEPT ![f] = "map-write"]
             /\ log' = Logged(f, <<"contentWrite.done", "mapWrite.start">>)
     ELSE /\ task' = [task EXCEPT ![f] = NoTask]
          /\ pc' = [pc EXCEPT ![f] = "resolved"]
          /\ log' = Logged(f, <<"contentWrite.done">>)
  /\ UNCHANGED <<files, emitted, fatals, host, history, atFinalize>>

\* The sourceMappingURL comment of line 97.
SourceMappingURL(sourceMapsName) ==
  <<"/*# sourceMappingURL=">> \o sourceMapsName \o <<" */">>

\* WriteGroup with the injection done at once, as transform does it.
WriteGroupInjectFirst(g, concat, opts) ==
  LET outFile == EnsureUserPath(OutFileString)
      sourceMapsName == BaseName(outFile) \o <<".map">>
      full == ConcatAdd(concat, Undefined, SourceMappingURL(sourceMapsName))
  IN /\ files' = [files EXCEPT ![g] = inject(@, g, opts, FALSE)]
     /\ task' = StartWrite(g, outFile, full.content, full)
     /\ pc' = [pc EXCEPT ![g] = "content-write"]
     /\ log' = Logged(g, <<"inject", "contentWrite.start">>)
     /\ UNCHANGED emitted

\* The file-output branch of transformGroup, lines 92-100: the content write
\* is started.
WriteGroup(g, concat, opts) ==
  LET outFile == EnsureUserPath(OutFileString)
      sourceMapsName == BaseName(outFile) \o <<".map">>
      full == ConcatAdd(concat, Undefined, SourceMappingURL(sourceMapsName))
  IN /\ task' = StartWrite(g, outFile, full.content, full)
     /\ pc' = [pc EXCEPT ![g] = "content-write"]
     /\ log' = Logged(g, <<"contentWrite.start">>)
     /\ UNCHANGED <<files, emitted>>

\* The inline branch of transformGroup and the emitHMR after it, lines 106-112.
InlineGroup(g, concat, opts) ==
  LET cssContents == concat.content
      safeContents == JSONStringify(cssContents)
      inlined == addAlternativeContent(files[g],
                   ValueCall(fuseBoxPath(g), safeContents) \o <<";">>)
  IN /\ files' = [files EXCEPT ![g] = inlined]
     /\ emitted' = emitted \o emitHMR(inlined, g)
     /\ pc' = [pc EXCEPT ![g] = "returned"]
     /\ log' = Logged(g, <<"emitHMR">>)
     /\ UNCHANGED task

\* transformGroup(group), lines 77-113, up to its return.
TransformGroup(g) ==
  /\ g \in DOMAIN files
  /\ files[g].groupMode
  /\ pc[g] = "idle"
  /\ atFinalize' = appendOrder
  /\ UNCHANGED <<disk, fatals, host, history>>
  /\ LET concat == ConcatSubFiles(NewConcat, files[g].subFiles)
         opts == files[g].groupHandler
     IN IF opts.outFile = "function"
        THEN \* ensureUserPath of a function: path.isAbsolute throws a TypeError
             /\ pc' = [pc EXCEPT ![g] = "threw"]
             /\ log' = Logged(g, <<"TypeError">>)
             /\ UNCHANGED <<files, task, emitted>>
        ELSE IF opts.outFile # None
        THEN WriteGroup(g, concat, opts)
        ELSE InlineGroup(g, concat, opts)

\* TransformGroupWritten with the injection left out.
TransformGroupWrittenNoInject(g) ==
  /\ g = GroupName
  /\ pc[g] = "content-write"
  /\ disk' = Written(task[g].path, task[g].data)
  /\ LET outFile == task[g].path
         bundleDir == DirName(outFile)
         sourceMapsName == BaseName(outFile) \o <<".map">>
         sourceMapsFile == EnsureUserPath(PathJoin(bundleDir, sourceMapsName))
     IN /\ task' = StartWrite(g, sourceMapsFile,
                              ConcatSourceMap(task[g].concat), task[g].concat)
        /\ pc' = [pc EXCEPT ![g] = "map-write"]
        /\ log' = Logged(g, <<"contentWrite.done", "mapWrite.start">>)
  /\ UNCHANGED <<files, emitted, fatals, host, history, atFinalize>>

\* TransformGroupWritten that stores the injected call as the alternative
\* content.
TransformGroupWrittenAlternative(g) ==
  /\ g = GroupName
  /\ pc[g] = "content-write"
  /\ disk' = Written(task[g].path, task[g].data)
  /\ LET outFile == task[g].path
         bundleDir == DirName(outFile)
         sourceMapsName == BaseName(outFile) \o <<".map">>
         sourceMapsFile == EnsureUserPath(PathJoin(bundleDir, sourceMapsName))
     IN /\ files' = [files EXCEPT ![g] = inject(@, g, @.groupHandler, TRUE)]
        /\ task' = StartWrite(g, sourceMapsFile,
                              ConcatSourceMap(task[g].concat), task[g].concat)
        /\ pc' = [pc EXCEPT ![g] = "map-write"]
        /\ log' = Logged(g, <<"contentWrite.done", "inject", "mapWrite.start">>)
  /\ UNCHANGED <<emitted, fatals, host, history, atFinalize>>

\* TransformGroupWritten that reads the members again for the map.
TransformGroupWrittenRereading(g) ==
  /\ g = GroupName
  /\ pc[g] = "content-write"
  /\ disk' = Written(task[g].path, task[g].data)
  /\ LET outFile == task[g].path
         bundleDir == DirName(outFile)
         sourceMapsName == BaseName(outFile) \o <<".map">>
         sourceMapsFile == EnsureUserPath(PathJoin(bundleDir, sourceMapsName))
         again == ConcatSubFiles(NewConcat, files[g].subFiles)
     IN /\ files' = [files EXCEPT ![g] = inject(@, g, @.groupHandler, FALSE)]
        /\ task' = StartWrite(g, sourceMapsFile, ConcatSourceMap(again), again)
        /\ pc' = [pc EXCEPT ![g] = "map-write"]
        /\ log' = Logged(g, <<"contentWrite.done", "inject", "mapWrite.start">>)
  /\ UNCHANGED <<emitted, fatals, host, history, atFinalize>>

\* The continuation of the content write of transformGroup, lines 100-105.
TransformGroupWritten(g) ==
  /\ g = GroupName
  /\ pc[g] = "content-write"
  /\ disk' = Written(task[g].path, task[g].data)
  /\ LET outFile == task[g].path
         bundleDir == DirName(outFile)
         sourceMapsName == BaseName(outFile) \o <<".map">>
         sourceMapsFile == EnsureUserPath(PathJoin(bundleDir, sourceMapsName))
     IN /\ files' = [files EXCEPT ![g] = inject(@, g, @.groupHandler, FALSE)]
        /\ task' = StartWrite(g, sourceMapsFile,
                              ConcatSourceMap(task[g].concat), task[g].concat)
        /\ pc' = [pc EXCEPT ![g] = "map-write"]
        /\ log' = Logged(g, <<"contentWrite.done", "inject", "mapWrite.start">>)
  /\ UNCHANGED <<emitted, fatals, host, history, atFinalize>>

\* The map write of either call completes and the returned promise resolves.
MapWritten(f) ==
  /\ pc[f] = "map-write"
  /\ disk' = Written(task[f].path, task[f].data)
  /\ task' = [task EXCEPT ![f] = NoTask]
  /\ pc' = [pc EXCEPT ![f] = "resolved"]
  /\ log' = Logged(f, <<"mapWrite.done">>)
  /\ UNCHANGED <<files, emitted, fatals, host, history, atFinalize>>

\* WriteFailed that swallows the failure: the returned promise resolves.
WriteFailedSwallowed(f) ==
  /\ pc[f] \in {"content-write", "map-write"}
  /\ task' = [task EXCEPT ![f] = NoTask]
  /\ pc' = [pc EXCEPT ![f] = "resolved"]
  /\ log' = Logged(f, IF pc[f] = "content-write"
                      THEN <<"contentWrite.fail">> ELSE <<"mapWrite.fail">>)
  /\ UNCHANGED <<files, disk, emitted, fatals, host, history, atFinalize>>

\* A pending write fails: its continuation is skipped and the returned promise
\* is rejected.
WriteFailed(f) ==
  /\ pc[f] \in {"content-write", "map-write"}
  /\ task' = [task EXCEPT ![f] = NoTask]
  /\ pc' = [pc EXCEPT ![f] = "rejected"]
  /\ log' = Logged(f, IF pc[f] = "content-write"
                      THEN <<"contentWrite.fail">> ELSE <<"mapWrite.fail">>)
  /\ UNCHANGED <<files, disk, emitted, fatals, host, history, atFinalize>>

Next ==
  \/ \E f \in AllFiles, this \in Plugins : Transform(f, this)
  \/ \E f \in Modules : TransformWritten(f)
  \/ TransformGroup(GroupName)
  \/ TransformGroupWritten(GroupName)
  \/ \E f \in AllFiles : MapWritten(f)
  \/ \E f \in AllFiles : WriteFailed(f)

Spec == Init /\ [][Next]_vars

\* A build whose configured instance groups the modules it transforms, with
\* one module more; the other instance inlines the modules it transforms.
GroupingOptions ==
  {o \in OptionsSet : o.group = GroupName /\ o.outFile # "function"
                       /\ o.inject = None}

InitGrouped ==
  /\ files = [f \in GroupedModules |-> NewModule(Undefined)]
  /\ called = [f \in AllFiles |-> FALSE]
  /\ handledBy = [f \in AllFiles |-> NoOptions]
  /\ source = [f \in AllFiles |-> Undefined]
  /\ appendOrder = <<>>
  /\ atFinalize = <<>>
  /\ pc = [f \in AllFiles |-> "idle"]
  /\ task = [f \in AllFiles |-> NoTask]
  /\ disk = <<>>
  /\ emitted = <<>>
  /\ fatals = <<>>
  /\ log = [f \in AllFiles |-> <<>>]
  /\ options \in GroupingOptions
  /\ bundle = [present |-> TRUE, lastChangedFile |-> <<"src", "/", "main", ".css">>]

NextGrouped ==
  \/ \E f \in AllFiles, this \in Plugins : Transform(f, this)
  \/ TransformGroup(GroupName)
  \/ TransformGroupWritten(GroupName)
  \/ MapWritten(GroupName)
  \/ WriteFailed(GroupName)

SpecGrouped == InitGrouped /\ [][NextGrouped]_vars

\* The same build with two instances that name the same group: the
\* configured one and a CSSPlugin({group, minify: true}).
SecondGrouping ==
  [outFile |-> None, inject |-> None, group |-> GroupName, minify |-> TRUE]
SharedPlugins == {options, SecondGrouping}

NextShared ==
  \/ \E f \in AllFiles, this \in SharedPlugins : Transform(f, this)
  \/ TransformGroup(GroupName)
  \/ TransformGroupWritten(GroupName)
  \/ MapWritten(GroupName)
  \/ WriteFailed(GroupName)

SpecShared == InitGrouped /\ [][NextShared]_vars

\* minifyContents on its own: one loaded module whose content is any string
\* of at most MaxLen characters, minified again and again as line 151 does.
Alphabet == Whitespace \cup {"a"}
Strings(n) == UNION {[1..k -> Alphabet] : k \in 0..n}
MinifyOptions ==
  [outFile |-> None, inject |-> None, group |-> None, minify |-> TRUE]

InitMinify ==
  /\ \E c \in Strings(MaxLen) :
       /\ files = [f \in {ModuleNames[1]} |->
                     [NewModule(Undefined) EXCEPT !.contents = c,
                                                  !.isLoaded = TRUE]]
       /\ source = [f \in AllFiles |->
                      IF f = ModuleNames[1] THEN c ELSE Undefined]
  /\ called = [f \in AllFiles |-> FALSE]
  /\ handledBy = [f \in AllFiles |-> NoOptions]
  /\ appendOrder = <<>>
  /\ atFinalize = <<>>
  /\ pc = [f \in AllFiles |-> "idle"]
  /\ task = [f \in AllFiles |-> NoTask]
  /\ disk = <<>>
  /\ emitted = <<>>
  /\ fatals = <<>>
  /\ log = [f \in AllFiles |-> <<>>]
  /\ options = MinifyOptions
  /\ bundle = [present |-> FALSE, lastChangedFile |-> Undefined]

\* Lines 150-152: file.contents = this.minifyContents(file.contents)
Minify(f) ==
  /\ f \in DOMAIN files
  /\ options.minify
  /\ Len(log[f]) < MaxApplications
  /\ files' = [files EXCEPT ![f].contents = minifyContents(@)]
  /\ log' = Logged(f, <<"minify">>)
  /\ UNCHANGED <<called, handledBy, source, appendOrder, atFinalize, pc, task,
                 disk, emitted, fatals, host>>

NextMinify == \E f \in Modules : Minify(f)

SpecMinify == InitMinify /\ [][NextMinify]_vars

\* ------------------------------------------------------------------ claims
Positions(l, e) == {i \in 1..Len(l) : l[i] = e}
Happened(f, e) == Positions(log[f], e) # {}
\* Every b of the log comes after an a.
Before(l, a, b) ==
  \A i \in Positions(l, b) : \E j \in Positions(l, a) : j < i

Groups == {g \in DOMAIN files : files[g].groupMode}
\* The groups whose configuration has an output path.
FileGroups == {g \in Groups : files[g].groupHandler.outFile # None}
GroupOutFile == EnsureUserPath(OutFileString)

\* C1: in transformGroup of a group with an output path, the content write has
\* completed before the map write is started and before the injection: while
\* the content write is pending the group is not injected and no map write is
\* started, and once either has happened the content file is on disk.
C1_ContentWriteFirst ==
  \A g \in FileGroups :
    /\ Before(log[g], "contentWrite.done", "mapWrite.start")
    /\ Before(log[g], "contentWrite.done", "inject")
    /\ pc[g] = "content-write" =>
         /\ ~Happened(g, "inject") /\ ~Happened(g, "mapWrite.start")
         /\ files[g].contents = <<>>
         /\ task[g].path = GroupOutFile
    /\ Happened(g, "inject") \/ Happened(g, "mapWrite.start") =>
         GroupOutFile \in DOMAIN disk

C1_Witness ==
  /\ GroupName \in FileGroups
  /\ pc[GroupName] = "map-write"
  /\ Happened(GroupName, "inject")
  /\ GroupOutFile \in DOMAIN disk

SyntaxError == <<"SyntaxError">>

JSONUnescape(c) ==
  CASE c = "n" -> "\n"
    [] c = "r" -> "\r"
    [] c = "t" -> "\t"
    [] OTHER -> c

RECURSIVE JSONParseBody(_)
JSONParseBody(s) ==
  IF s = <<>> THEN <<>>
  ELSE IF s[1] = "\\"
  THEN IF Len(s) < 2 \/ s[2] \notin {"\"", "\\", "n", "r", "t"} THEN SyntaxError
       ELSE LET rest == JSONParseBody(SubSeq(s, 3, Len(s)))
            IN IF rest = SyntaxError THEN SyntaxError
               ELSE <<JSONUnescape(s[2])>> \o rest
  ELSE IF s[1] \in {"\"", "\n", "\r", "\t"} THEN SyntaxError
  ELSE LET rest == JSONParseBody(Tail(s))
       IN IF rest = SyntaxError THEN SyntaxError ELSE <<s[1]>> \o rest

JSONParse(lit) ==
  IF Len(lit) < 2 \/ lit[1] # "\"" \/ Last(lit) # "\"" THEN SyntaxError
  ELSE JSONParseBody(SubSeq(lit, 2, Len(lit) - 1))

\* A value call `__fsbx_css("<path>", <literal>)<tail>` read back: its path and
\* the string its literal stands for.
IsValueCall(str, tail) ==
  /\ Len(str) >= 4 + Len(tail)
  /\ str[1] = "__fsbx_css(\"" /\ str[3] = "\", "
  /\ SubSeq(str, Len(str) - Len(tail), Len(str)) = <<")">> \o tail
ValuePath(str) == <<str[2]>>
ValuePayload(str, tail) == JSONParse(SubSeq(str, 4, Len(str) - Len(tail) - 1))

\* sub occurs in str
Contains(str, sub) ==
  \E i \in 0..(Len(str) - Len(sub)) : SubSeq(str, i + 1, i + Len(sub)) = sub

\* The modules transform has worked on, and the content each has after the
\* configured minification of what was read.
Transformed == {f \in DOMAIN files : ~files[f].groupMode /\ called[f]}
Minified(f) ==
  IF handledBy[f].minify THEN minifyContents(source[f]) ELSE source[f]

RECURSIVE JoinLines(_)
JoinLines(ms) ==
  IF ms = <<>> THEN <<>>
  ELSE IF Len(ms) = 1 THEN Minified(ms[1])
  ELSE Minified(ms[1]) \o <<"\n">> \o JoinLines(Tail(ms))

EventsOf(f) == {i \in 1..Len(emitted) : emitted[i].path = fuseBoxPath(f)}
Succeeded(f) == pc[f] \in {"returned", "resolved"}

\* C3 as stated: every transformGroup call whose output succeeds, inlined or
\* written to a file, invokes emitHMR on the group.
C3_GroupNotifies ==
  \A g \in Groups : Succeeded(g) => Happened(g, "emitHMR")

\* C4 as stated: with inject: false the replacement is the empty string on
\* every path: inline transform, direct-output transform, inlined group and
\* file-output group.
C4_SuppressedEverywhere ==
  /\ \A f \in Transformed :
       handledBy[f].inject = "false" /\ handledBy[f].group = None /\ pc[f] # "threw"
         => files[f].alternativeContent = <<>>
  /\ \A g \in Groups :
       files[g].groupHandler.inject = "false" =>
         /\ pc[g] = "returned" => files[g].alternativeContent = <<>>
         /\ Happened(g, "inject") => files[g].contents = <<>>

\* C4 as amended: with inject: false the string inject() stores is the empty
\* string on the paths that write a file (the replacement of a direct-output
\* module, the contents of a file-output group); the inline paths (inline
\* transform, inlined group) set a value call that carries the content.
C4_SuppressedOnFileOutput ==
  /\ \A f \in Transformed :
       handledBy[f].inject = "false" /\ handledBy[f].group = None =>
         /\ handledBy[f].outFile = "function" => files[f].alternativeContent = <<>>
         /\ handledBy[f].outFile = None =>
              /\ IsValueCall(files[f].alternativeContent, <<>>)
              /\ ValuePayload(files[f].alternativeContent, <<>>) = Minified(f)
  /\ \A g \in Groups :
       files[g].groupHandler.inject = "false" =>
         /\ Happened(g, "inject") => files[g].contents = <<>>
         /\ pc[g] = "returned" =>
              /\ IsValueCall(files[g].alternativeContent, <<";">>)
              /\ ValuePayload(files[g].alternativeContent, <<";">>) = JoinLines(atFinalize)

C4_Witness ==
  \E f \in Transformed :
    /\ handledBy[f].inject = "false" /\ handledBy[f].outFile = "function"
    /\ handledBy[f].group = None
    /\ files[f].alternativeContent = <<>>
    /\ pc[f] = "resolved"

\* C5 as stated: every module transformed by a plugin whose outFile is defined
\* has the reference form as its replacement.
C5_OutFileGivesReference ==
  \A f \in Transformed :
    handledBy[f].outFile # None =>
      \E path \in {fuseBoxPath(f), InjectFunction(fuseBoxPath(f))} :
        files[f].alternativeContent = ReferenceCall(path)

\* C5 as amended: the replacement of a module transformed by a plugin whose
\* outFile is a function, or whose outFile is defined and that has a group
\* name, never carries the content inline; it is the require marker of the
\* group when the plugin has a group name, else the empty string when inject
\* is false, else the reference form.
C5_OutFileNeverInline ==
  \A f \in Transformed :
    handledBy[f].outFile # None
    /\ (handledBy[f].outFile = "function" \/ handledBy[f].group # None) =>
      /\ ~IsValueCall(files[f].alternativeContent, <<>>)
      /\ ~Contains(files[f].alternativeContent, JSONStringify(files[f].contents))
      /\ files[f].alternativeContent =
           IF handledBy[f].group # None THEN RequireCall(handledBy[f].group)
           ELSE IF handledBy[f].inject = "false" THEN <<>>
           ELSE IF handledBy[f].inject = "function"
                THEN ReferenceCall(InjectFunction(fuseBoxPath(f)))
                ELSE ReferenceCall(fuseBoxPath(f))

C5_Witness ==
  \E f \in Transformed :
    /\ handledBy[f].outFile = "function" /\ handledBy[f].group = None
    /\ handledBy[f].inject = None
    /\ files[f].alternativeContent = ReferenceCall(fuseBoxPath(f))
    /\ files[f].contents # <<>>
    /\ pc[f] = "resolved"

\* C6: a module transformed with no group and no output path has the value
\* call as its replacement, with the module's logical path and a payload that
\* reads back as exactly the content after the configured minification (the
\* content as read when minify is off), and no write is started for it.
C6_InlineValue ==
  \A f \in Transformed :
    handledBy[f].group = None /\ handledBy[f].outFile = None =>
      /\ files[f].contents = Minified(f)
      /\ IsValueCall(files[f].alternativeContent, <<>>)
      /\ ValuePath(files[f].alternativeContent) = fuseBoxPath(f)
      /\ ValuePayload(files[f].alternativeContent, <<>>) = Minified(f)
      /\ ~handledBy[f].minify => ValuePayload(files[f].alternativeContent, <<>>) = source[f]
      /\ pc[f] = "returned"
      /\ task[f] = NoTask
      /\ ~Happened(f, "contentWrite.start") /\ ~Happened(f, "mapWrite.start")

C6_Witness ==
  \E f \in Transformed :
    /\ handledBy[f].group = None /\ handledBy[f].outFile = None
    /\ handledBy[f].minify
    /\ Minified(f) # source[f]
    /\ Contains(Minified(f), <<"\"">>)
    /\ ValuePayload(files[f].alternativeContent, <<>>) = Minified(f)

\* C7: the content transformGroup concatenates is the contents of the members
\* in the order transform appended them, joined by newlines, whatever their
\* paths and whatever other transforms ran in between: it is what the content
\* write carries and leaves on disk (followed by the sourceMappingURL comment)
\* and what an inlined group's value call carries.
C7_AppendOrderKept ==
  \A g \in Groups :
    LET joined == JoinLines(atFinalize)
        written == joined \o <<"\n">>
                   \o SourceMappingURL(BaseName(GroupOutFile) \o <<".map">>)
    IN /\ pc[g] = "content-write" => task[g].data = written
       /\ Happened(g, "contentWrite.done") => disk[GroupOutFile] = written
       /\ pc[g] = "returned" =>
            /\ IsValueCall(files[g].alternativeContent, <<";">>)
            /\ ValuePayload(files[g].alternativeContent, <<";">>) = joined
       /\ pc[g] = "idle" => files[g].subFiles = appendOrder

\* Two members appended against the order of their paths, with the transform
\* of a module outside the group between them.
C7_Witness ==
  /\ GroupName \in Groups
  /\ atFinalize = <<"c.css", "a.css">>
  /\ called["b.css"] /\ handledBy["b.css"].group = None
  /\ Minified("c.css") # Minified("a.css")
  /\ Happened(GroupName, "contentWrite.done")
  /\ Contains(disk[GroupOutFile],
              Minified("c.css") \o <<"\n">> \o Minified("a.css") \o <<"\n">>)

\* C8: emitHMR on a file emits no event when the last changed file of the
\* bundle is no stylesheet, and exactly one event {type: "js", content: the
\* file's alternative content, path: its logical path} when it is a stylesheet.
C8_NotifyGated ==
  \A f \in DOMAIN files :
    Happened(f, "emitHMR") /\ bundle.present
    /\ bundle.lastChangedFile # Undefined =>
      IF Last(bundle.lastChangedFile) = ".css"
      THEN /\ Cardinality(EventsOf(f)) = 1
           /\ \A i \in EventsOf(f) :
                emitted[i] = [type |-> "js",
                              content |-> files[f].alternativeContent,
                              path |-> fuseBoxPath(f)]
      ELSE EventsOf(f) = {}

C8_Witness ==
  /\ bundle.present /\ Last(bundle.lastChangedFile) = ".css"
  /\ \E f \in Transformed :
       /\ Happened(f, "emitHMR")
       /\ Cardinality(EventsOf(f)) = 1
       /\ \A i \in EventsOf(f) : emitted[i].content = files[f].alternativeContent

\* C9 as stated: with no bundle, or a bundle with no last changed file,
\* emitHMR emits no event.
C9_NoContextNoEvent ==
  \A f \in DOMAIN files :
    Happened(f, "emitHMR")
    /\ (~bundle.present \/ bundle.lastChangedFile = Undefined) =>
      EventsOf(f) = {}

\* C10: an ungrouped module transformed with an outFile that is defined and no
\* function is reported on the fatal channel before anything else is done for
\* it, and the call ends there: no write is started, no alternative content is
\* set and no event is emitted for the module.
C10_FatalHalts ==
  \A f \in Transformed :
    handledBy[f].group = None /\ handledBy[f].outFile = "string" =>
      /\ Positions(fatals, f) # {}
      /\ log[f] = <<"fatal">>
      /\ pc[f] = "threw"
      /\ task[f] = NoTask
      /\ files[f].alternativeContent = Undefined
      /\ EventsOf(f) = {}
      /\ \A p \in DOMAIN disk : ~Contains(p, fuseBoxPath(f))

C10_Witness ==
  \E f \in Transformed :
    /\ handledBy[f].group = None /\ handledBy[f].outFile = "string"
    /\ Positions(fatals, f) # {}
    /\ pc[f] = "threw"
    /\ files[f].isLoaded

\* The path of the content file of a call, and of its sibling map file.
ContentPath(f) ==
  IF files[f].groupMode THEN GroupOutFile
  ELSE EnsureUserPath(OutFileFunction(fuseBoxPath(f)))
MapPath(f) ==
  PathJoin(DirName(ContentPath(f)), BaseName(ContentPath(f)) \o <<".map">>)
Count(f, e) == Cardinality(Positions(log[f], e))

\* C11: a failed content write or map write, of transformGroup or of the
\* direct-output path of transform, rejects the promise the call returned, and
\* the write is not started again; after a failed content write of
\* transformGroup no map write is started, the group is not injected and no
\* change notification is made.
C11_WriteFailureRejects ==
  \A f \in DOMAIN files :
    /\ Happened(f, "contentWrite.fail") =>
         /\ pc[f] = "rejected"
         /\ Last(log[f]) = "contentWrite.fail"
         /\ Count(f, "contentWrite.start") = 1
         /\ ~Happened(f, "mapWrite.start")
         /\ ContentPath(f) \notin DOMAIN disk
         /\ files[f].groupMode =>
              /\ ~Happened(f, "inject") /\ ~Happened(f, "emitHMR")
              /\ files[f].contents = <<>>
              /\ EventsOf(f) = {}
    /\ Happened(f, "mapWrite.fail") =>
         /\ pc[f] = "rejected"
         /\ Last(log[f]) = "mapWrite.fail"
         /\ Count(f, "contentWrite.start") = 1
         /\ Count(f, "mapWrite.start") = 1
         /\ ContentPath(f) \in DOMAIN disk
         /\ MapPath(f) \notin DOMAIN disk

C11_Witness ==
  /\ GroupName \in FileGroups
  /\ Happened(GroupName, "contentWrite.fail")
  /\ pc[GroupName] = "rejected"
  /\ log[GroupName] = <<"contentWrite.start", "contentWrite.fail">>

\* C12: a transform by a plugin with a group name appends the module to that
\* group, sets the require marker of the group as the module's replacement and
\* returns: no write is started, no injection call is produced and no event is
\* emitted for the module, whatever outFile and inject are.
C12_GroupedOnlyAppends ==
  \A f \in Transformed :
    handledBy[f].group # None =>
      /\ handledBy[f].group \in Groups
      /\ Cardinality(Positions(files[handledBy[f].group].subFiles, f)) = 1
      /\ files[f].alternativeContent = RequireCall(handledBy[f].group)
      /\ files[f].alternativeContent[1] # "__fsbx_css(\""
      /\ files[f].contents = Minified(f)
      /\ pc[f] = "returned"
      /\ task[f] = NoTask
      /\ log[f] = <<>>
      /\ EventsOf(f) = {}
      /\ \A p \in DOMAIN disk : ~Contains(p, fuseBoxPath(f))

C12_Witness ==
  /\ bundle.present /\ bundle.lastChangedFile # Undefined
  /\ Last(bundle.lastChangedFile) = ".css"
  /\ \E f \in Transformed :
       /\ handledBy[f].group = GroupName
       /\ handledBy[f].outFile = "function" /\ handledBy[f].inject = "false"
       /\ files[f].alternativeContent = RequireCall(GroupName)
       /\ files[GroupName].subFiles = <<f>>

\* C13: whatever instances transform the modules, a group name has one group:
\* the group is created by the first transform that names it and reused by
\* the later ones, so it keeps the handler of its creator and has every
\* module transformed with that name as a member, once, in the order appended.
C13_OneGroupPerName ==
  /\ Groups \subseteq {GroupName}
  /\ appendOrder # <<>> <=> GroupName \in Groups
  /\ \A g \in Groups :
       /\ files[g].subFiles = appendOrder
       /\ files[g].groupHandler = handledBy[appendOrder[1]]
       /\ \A f \in Transformed :
            handledBy[f].group = g =>
              Cardinality(Positions(files[g].subFiles, f)) = 1

C13_Witness ==
  /\ GroupName \in Groups
  /\ Len(files[GroupName].subFiles) = 3
  /\ handledBy[appendOrder[1]] # handledBy[appendOrder[2]]
  /\ handledBy[appendOrder[1]] = handledBy[appendOrder[3]]
  /\ files[GroupName].groupHandler = handledBy[appendOrder[1]]
  /\ files[GroupName].groupHandler.outFile = "string"

\* C14 as stated: once transformGroup of a group with an output path has
\* completed, the replacement of the aggregation module is the reference call
\* on the resolved output path of the group.
C14_ReferenceToOutFile ==
  \A g \in FileGroups :
    pc[g] = "resolved" =>
      \E repl \in {files[g].alternativeContent, files[g].contents} :
        \E path \in {GroupOutFile, OutFileString} :
          repl = ReferenceCall(path)

\* C14 as amended: once the content write of transformGroup has completed, the
\* contents of the aggregation module are what inject() produced for the
\* group's own logical path: the reference call on that path, or on what
\* options.inject makes of it, or the empty string when inject is false; the
\* alternative content of the aggregation module is left unset and the output
\* path occurs nowhere in the module.
C14_ReferenceToLogicalPath ==
  \A g \in FileGroups :
    GroupOutFile \in DOMAIN disk =>
      /\ files[g].alternativeContent = Undefined
      /\ files[g].contents =
           IF files[g].groupHandler.inject = "false" THEN <<>>
           ELSE IF files[g].groupHandler.inject = "function"
                THEN ReferenceCall(InjectFunction(fuseBoxPath(g)))
                ELSE ReferenceCall(fuseBoxPath(g))
      /\ ~Contains(files[g].contents, OutFileString)

C14_Witness ==
  /\ GroupName \in FileGroups
  /\ pc[GroupName] = "resolved"
  /\ files[GroupName].groupHandler.inject = None
  /\ files[GroupName].contents = ReferenceCall(<<GroupName>>)
  /\ files[GroupName].alternativeContent = Undefined
  /\ MapPath(GroupName) \in DOMAIN disk

\* C15: minifyContents is idempotent: whatever string of spaces, tabs,
\* carriage returns, newlines and other characters a module holds, its content
\* after one minification is a fixed point of minifyContents, so every further
\* minification leaves it as the first one made it.
C15_MinifyIdempotent ==
  \A f \in DOMAIN files :
    Count(f, "minify") >= 1 =>
      /\ files[f].contents = minifyContents(source[f])
      /\ minifyContents(files[f].contents) = files[f].contents
      /\ minifyContents(minifyContents(source[f])) = minifyContents(source[f])

\* Minified twice, a content with a run of mixed whitespace inside and
\* whitespace at both ends.
C15_Witness ==
  \E f \in DOMAIN files :
    /\ Count(f, "minify") = MaxApplications
    /\ source[f] = <<"\n", "a", " ", "\t", "a">>
    /\ files[f].contents = <<"a", " ", "a">>

\* C16: on the direct-output path of transform the map write is started only
\* for a module that has a source map and only after the content write has
\* completed; for a module with no source map the content write is the only
\* write: no map write is started and no map file appears.
C16_MapWriteOnlyWithMap ==
  \A f \in Transformed :
    handledBy[f].group = None /\ handledBy[f].outFile = "function" =>
      /\ Before(log[f], "contentWrite.done", "mapWrite.start")
      /\ Count(f, "contentWrite.start") = 1
      /\ Happened(f, "mapWrite.start") =>
           /\ files[f].sourceMap # Undefined
           /\ ContentPath(f) \in DOMAIN disk
           /\ Count(f, "mapWrite.start") = 1
      /\ pc[f] = "content-write" => MapPath(f) \notin DOMAIN disk
      /\ files[f].sourceMap = Undefined =>
           /\ ~Happened(f, "mapWrite.start")
           /\ MapPath(f) \notin DOMAIN disk
           /\ pc[f] # "map-write"
           /\ pc[f] = "resolved" =>
                log[f] = <<"inject", "contentWrite.start", "contentWrite.done">>
      /\ files[f].sourceMap # Undefined /\ pc[f] = "resolved" =>
           /\ MapPath(f) \in DOMAIN disk
           /\ disk[MapPath(f)] = files[f].sourceMap

\* One module with no source map and one with a source map, both written.
C16_Witness ==
  \E f, h \in Transformed :
    /\ handledBy[f].outFile = "function" /\ handledBy[f].group = None
    /\ handledBy[h].outFile = "function" /\ handledBy[h].group = None
    /\ files[f].sourceMap = Undefined /\ pc[f] = "resolved"
    /\ ContentPath(f) \in DOMAIN disk /\ MapPath(f) \notin DOMAIN disk
    /\ files[h].sourceMap # Undefined /\ pc[h] = "resolved"
    /\ MapPath(h) \in DOMAIN disk

\* C17 as stated: every successful transform that is not on the group path
\* invokes emitHMR, so that a successful direct-output transform whose last
\* changed file is a stylesheet results in one change event.
C17_EveryTransformNotifies ==
  \A f \in Transformed :
    handledBy[f].group = None /\ Succeeded(f) =>
      /\ Happened(f, "emitHMR")
      /\ bundle.present /\ bundle.lastChangedFile # Undefined
         /\ isStylesheetExtension(bundle.lastChangedFile) =>
           Cardinality(EventsOf(f)) = 1

\* C17 as amended: of the transforms that are not on the group path only the
\* inline one invokes emitHMR (once, which then applies the last-changed-file
\* gate); the direct-output path never invokes it, so a direct-output
\* transform results in no change event whatever the last changed file is.
C17_OnlyInlineNotifies ==
  \A f \in Transformed :
    handledBy[f].group = None =>
      /\ handledBy[f].outFile = None =>
           /\ Count(f, "emitHMR") = 1
           /\ Cardinality(EventsOf(f)) <= 1
           /\ bundle.present /\ bundle.lastChangedFile # Undefined =>
                (EventsOf(f) # {} <=> isStylesheetExtension(bundle.lastChangedFile))
      /\ handledBy[f].outFile = "function" =>
           /\ ~Happened(f, "emitHMR")
           /\ EventsOf(f) = {}

C17_Witness ==
  /\ bundle.present /\ bundle.lastChangedFile # Undefined
  /\ isStylesheetExtension(bundle.lastChangedFile)
  /\ \E f, h \in Transformed :
       /\ handledBy[f].outFile = "function" /\ handledBy[f].group = None
       /\ pc[f] = "resolved" /\ EventsOf(f) = {}
       /\ handledBy[h].outFile = None /\ handledBy[h].group = None
       /\ Cardinality(EventsOf(h)) = 1

IsPrefix(p, l) == Len(p) <= Len(l) /\ SubSeq(l, 1, Len(p)) = p

\* C18: the content file and the map file one transformGroup call writes both
\* hold exactly the members the group had when the call started, in their
\* order, also when further modules were appended to the group while a write
\* of the call was pending: the later members follow the earlier ones in the
\* member list and occur in neither file.
C18_MembersStable ==
  \A g \in FileGroups :
    pc[g] # "idle" =>
      LET written == JoinLines(atFinalize) \o <<"\n">>
                     \o SourceMappingURL(BaseName(GroupOutFile) \o <<".map">>)
      IN /\ atFinalize # <<>>
         /\ IsPrefix(atFinalize, files[g].subFiles)
         /\ pc[g] \in {"content-write", "map-write"} =>
              task[g].concat.sources = atFinalize
         /\ pc[g] = "map-write" =>
              task[g].data = ConcatSourceMap([sources |-> atFinalize])
         /\ ContentPath(g) \in DOMAIN disk => disk[ContentPath(g)] = written
         /\ MapPath(g) \in DOMAIN disk =>
              /\ disk[MapPath(g)] = ConcatSourceMap([sources |-> atFinalize])
              /\ disk[ContentPath(g)] = written
              /\ \A f \in DOMAIN files :
                   Positions(disk[MapPath(g)], f) # {}
                     <=> Positions(atFinalize, f) # {}

\* Two modules appended while the writes of a call that started with one
\* member were pending, and both files written.
C18_Witness ==
  /\ GroupName \in FileGroups
  /\ pc[GroupName] = "resolved"
  /\ Len(atFinalize) = 1
  /\ Len(files[GroupName].subFiles) = 3
  /\ MapPath(GroupName) \in DOMAIN disk
  /\ Positions(disk[MapPath(GroupName)], files[GroupName].subFiles[3]) = {}

\* C19: a transform call on a module that has sub-members changes nothing:
\* neither the module (content, alternative content, source map, members) nor
\* any other module or group, no write is started, nothing is written, no
\* event is emitted and nothing is reported.
C19_SkipChangesNothing ==
  [][\A g \in DOMAIN files :
       hasSubFiles(files[g]) /\ ~called[g] /\ called'[g] =>
         UNCHANGED <<files, handledBy, source, appendOrder, atFinalize, pc,
                     task, disk, emitted, fatals, log>>]_vars

\* transform was called on the group while its content write was pending.
C19_Witness ==
  /\ GroupName \in DOMAIN files
  /\ called[GroupName]
  /\ hasSubFiles(files[GroupName])
  /\ handledBy[GroupName] = NoOptions
  /\ pc[GroupName] = "content-write"

====
